---- MODULE Spec2Model ----
(***************************************************************************)
(* mopidy/audio/scan.py: Scanner, the bounded-time metadata probe.         *)
(*                                                                         *)
(* One Scanner instance is modelled together with the GStreamer bus it     *)
(* polls.  Scanner.scan is a long-running call that interleaves with the   *)
(* engine posting messages, so the call is cut at its statements (pc).     *)
(* One iteration of the polling loop of _collect (deadline test,           *)
(* have_pending, pop, classification) is one step.  Wall-clock time is     *)
(* counted in whole milliseconds.                                          *)
(***************************************************************************)
EXTENDS Integers, Sequences, FiniteSets, TLC

\* ---------------------------------------------------------------- bounds
MaxQueue == 2        \* messages the bus holds at most
MaxScans == 2        \* calls of scan on the one instance
MaxTimeout == 1      \* largest timeout (ms) a Scanner is built with
MaxNames == 2        \* longest list a multi-valued name tag holds

\* ------------------------------------------------------- program constants
MSECOND == 1000000   \* gst.MSECOND: nanoseconds per millisecond

\* ------------------------------------------------------------ Python values
\* An optional integer: None is the empty tuple, the integer n is <<n>>.
None == <<>>
Some(n) == <<n>>

\* Python 2 ordering of None and integers (None sorts below every number).
PyGE(a, b) ==
    IF a = None THEN b = None
    ELSE IF b = None THEN TRUE
    ELSE a[1] >= b[1]

\* A dict is a function on the set of its keys.
EmptyDict == [k \in {} |-> ""]

\* Mutant of DictSet: d.setdefault(key, value), which keeps a value that is
\* already there.
DictSet_SetDefault(d, key, value) ==
    [k \in DOMAIN d \cup {key} |-> IF k \in DOMAIN d THEN d[k] ELSE value]

\* d[key] = value
DictSet(d, key, value) ==
    [k \in DOMAIN d \cup {key} |-> IF k = key THEN value ELSE d[k]]

\* MergeTags, were a key that is already there kept.
MergeTags_FirstWins(d, taglist) ==
    [k \in DOMAIN d \cup DOMAIN taglist |->
        IF k \in DOMAIN d THEN d[k] ELSE taglist[k]]

\* for key in taglist.keys(): data[key] = taglist[key]
MergeTags(d, taglist) ==
    [k \in DOMAIN d \cup DOMAIN taglist |->
        IF k \in DOMAIN taglist THEN taglist[k] ELSE d[k]]

\* --------------------------------------------------------------- the engine
\* Tag lists the engine delivers.  Both carry a title, each a key of its
\* own, and between them the keys named like the reserved ones.
TagListA == [k \in {"title", "artist", "uri", "mtime"} |->
               CASE k = "title" -> "X" [] k = "artist" -> "A"
                 [] k = "uri" -> "evil" [] k = "mtime" -> Some(9)]
TagListB == [k \in {"title", "genre", "duration"} |->
               CASE k = "title" -> "Y" [] k = "genre" -> "G"
                 [] k = "duration" -> Some(7)]

Message(type, src, text, taglist) ==
    [type |-> type, src |-> src, text |-> text, taglist |-> taglist]

NoMessage == Message("NONE", "", "", EmptyDict)

\* What the engine can post: the message kinds _collect tells apart.
Messages ==
    { Message("ERROR", "uribin", "decode failed", EmptyDict),
      Message("EOS", "pipe", "", EmptyDict),
      Message("ASYNC_DONE", "pipe", "", EmptyDict),
      Message("ASYNC_DONE", "uribin", "", EmptyDict),
      Message("TAG", "uribin", "", TagListA),
      Message("TAG", "uribin", "", TagListB),
      Message("STATE_CHANGED", "uribin", "", EmptyDict) }

\* Locators scanned, results of set_state(PAUSED), answers of the duration
\* query (nanoseconds; None stands for gst.QueryError) and of getmtime
\* (None stands for OSError).
Uris == {"file:a", "http:b"}
StateChanges == {"SUCCESS", "ASYNC", "NO_PREROLL"}
Durations == {None, Some(0), Some(50 * MSECOND), Some(100 * MSECOND - 1),
              Some(100 * MSECOND), Some(150 * MSECOND)}
Mtimes == {None, Some(5)}

Timeouts == {0, MaxTimeout}
MinDurations == {None, Some(-1), Some(100)}

\* ------------------------------------------------------------------ state
VARIABLES
    timeout_ms,       \* self._timeout_ms
    min_duration_ms,  \* self._min_duration_ms (optional integer)
    pipeState,        \* state of self._pipe
    uribinUri,        \* 'uri' property of self._uribin
    flushing,         \* self._bus is flushing
    bus,              \* messages queued on self._bus, with the scan they were posted in
    pc,               \* position of the running scan call, "idle" between calls
    uri,              \* argument of the running (or last) call
    now,              \* time.time(), in ms since the running call began
    start,            \* local 'start' of _collect
    data,             \* local 'data' of _collect / scan
    message,          \* local 'message' of _collect: the message last popped
    exc,              \* exception propagating through the try block, <<>> if none
    outcome,          \* how the last call ended: <<"none">>, <<"return">>, <<"raise", type, text>>
    mtimeResult,      \* what the modification-time lookup of this call gave
    durationResult,   \* what the duration query of this call gave
    scanNo,           \* number of calls started
    popped,           \* numbers of the scans whose messages this call popped
    result,           \* local 'result' of _setup, "" outside _setup
    audio_data,       \* argument 'data' of audio_data_to_track
    track             \* what audio_data_to_track returned, NoTrack before the call

vars == <<timeout_ms, min_duration_ms, pipeState, uribinUri, flushing, bus, pc,
          uri, now, start, data, message, exc, outcome, mtimeResult,
          durationResult, scanNo, popped, result, audio_data, track>>

config == <<timeout_ms, min_duration_ms>>
locals == <<start, data, message>>
queries == <<mtimeResult, durationResult>>
aggregator == <<audio_data, track>>

NoTrack == [k \in {} |-> ""]
Unset == <<"unset", "unset">>
NoExc == <<>>
ScannerError(text) == <<"ScannerError", text>>

\* Scanner.__init__ after the two parameters are stored: the pipeline is
\* built (it starts in NULL) and the bus is set flushing.
Constructed ==
    /\ pipeState = "NULL"
    /\ uribinUri = ""
    /\ flushing = TRUE
    /\ bus = <<>>
    /\ pc = "idle"
    /\ uri = ""
    /\ now = 0
    /\ start = 0
    /\ data = EmptyDict
    /\ message = NoMessage
    /\ exc = NoExc
    /\ outcome = <<"none">>
    /\ mtimeResult = Unset
    /\ durationResult = Unset
    /\ scanNo = 0
    /\ popped = {}
    /\ result = ""

\* A Scanner built with some timeout and min_duration; audio_data_to_track
\* is not called.
Init ==
    /\ timeout_ms \in Timeouts
    /\ min_duration_ms \in MinDurations
    /\ Constructed
    /\ audio_data = EmptyDict
    /\ track = NoTrack


\* ------------------------------------------------------------ environment
\* The engine posts a message; a flushing bus drops it.
Post ==
    /\ pipeState # "NULL"
    /\ Len(bus) < MaxQueue
    /\ \E m \in Messages :
          bus' = IF flushing THEN bus
                 ELSE Append(bus, [msg |-> m, gen |-> scanNo])
    /\ UNCHANGED <<aggregator, result, config, pipeState, uribinUri, flushing, pc, uri, now, locals,
                   exc, outcome, queries, scanNo, popped>>

\* Mutant of LoopCondition: the deadline counts only while nothing is pending.
LoopCondition_WhenQuiet == now - start < timeout_ms \/ bus # <<>>

\* while time.time() - start < timeout_s
LoopCondition == now - start < timeout_ms

\* Wall-clock time passes while the loop polls (an iteration that finds
\* nothing pending changes nothing else).  The clock is not followed past
\* the deadline.
Tick ==
    /\ pc = "loop"
    /\ now - start < timeout_ms
    /\ now' = now + 1
    /\ UNCHANGED <<aggregator, result, config, pipeState, uribinUri, flushing, bus, pc, uri, locals,
                   exc, outcome, queries, scanNo, popped>>

\* ------------------------------------------------------------ Scanner.scan
\* A caller invokes scan(uri); calls are strictly sequential.  The clock is
\* read from the start of the call on.
Scan ==
    /\ pc = "idle"
    /\ scanNo < MaxScans
    /\ \E u \in Uris : uri' = u
    /\ scanNo' = scanNo + 1
    /\ pc' = "setup_ready"
    /\ data' = EmptyDict
    /\ message' = NoMessage
    /\ exc' = NoExc
    /\ outcome' = <<"none">>
    /\ mtimeResult' = Unset
    /\ durationResult' = Unset
    /\ popped' = {}
    /\ now' = 0
    /\ start' = 0
    /\ result' = ""
    /\ UNCHANGED <<aggregator, config, pipeState, uribinUri, flushing, bus>>

\* _setup: self._pipe.set_state(gst.STATE_READY)
SetupReady ==
    /\ pc = "setup_ready"
    /\ pipeState' = "READY"
    /\ pc' = "setup_uri"
    /\ UNCHANGED <<aggregator, result, config, uribinUri, flushing, bus, uri, now, locals, exc,
                   outcome, queries, scanNo, popped>>

\* _setup: self._uribin.set_property(b'uri', uri); the call may raise, and
\* the exception leaves the try block through finally.
SetupUri ==
    /\ pc = "setup_uri"
    /\ \/ /\ uribinUri' = uri
          /\ pc' = "setup_flush"
          /\ exc' = exc
       \/ /\ uribinUri' = uribinUri
          /\ pc' = "reset_flush"
          /\ exc' = <<"TypeError", "set_property">>
    /\ UNCHANGED <<aggregator, result, config, pipeState, flushing, bus, uri, now, locals, outcome,
                   queries, scanNo, popped>>

\* _setup: self._bus.set_flushing(False)
SetupFlush ==
    /\ pc = "setup_flush"
    /\ flushing' = FALSE
    /\ pc' = "setup_paused"
    /\ UNCHANGED <<aggregator, result, config, pipeState, uribinUri, bus, uri, now, locals, exc,
                   outcome, queries, scanNo, popped>>

\* SetupPaused, were PLAYING requested whatever PAUSED reported.
SetupPaused_AlwaysPlaying ==
    /\ pc = "setup_paused"
    /\ pipeState' = "PAUSED"
    /\ \E r \in StateChanges :
          /\ result' = r
          /\ pc' = "setup_playing"
    /\ UNCHANGED <<aggregator, config, uribinUri, flushing, bus, uri, now, locals, exc,
                   outcome, queries, scanNo, popped>>

\* _setup: result = self._pipe.set_state(gst.STATE_PAUSED)
SetupPaused ==
    /\ pc = "setup_paused"
    /\ pipeState' = "PAUSED"
    /\ \E r \in StateChanges :
          /\ result' = r
          /\ pc' = IF r = "NO_PREROLL" THEN "setup_playing" ELSE "collect"
    /\ UNCHANGED <<aggregator, config, uribinUri, flushing, bus, uri, now, locals, exc,
                   outcome, queries, scanNo, popped>>

\* _setup: self._pipe.set_state(gst.STATE_PLAYING)
SetupPlaying ==
    /\ pc = "setup_playing"
    /\ pipeState' = "PLAYING"
    /\ pc' = "collect"
    /\ UNCHANGED <<aggregator, result, config, uribinUri, flushing, bus, uri, now, locals, exc,
                   outcome, queries, scanNo, popped>>

\* _setup has returned (its local 'result' is gone);
\* _collect: start = time.time(); data = {}
CollectStart ==
    /\ pc = "collect"
    /\ result' = ""
    /\ start' = now
    /\ data' = EmptyDict
    /\ pc' = "loop"
    /\ UNCHANGED <<aggregator, config, pipeState, uribinUri, flushing, bus, uri, now,
                   message, exc, outcome, queries, scanNo, popped>>

\* Mutant of Classify: an error message is skipped like an unknown one.
Classify_ErrorSkipped(m, d) ==
    IF m.type = "EOS"
    THEN [next |-> "return", data |-> d, exc |-> NoExc]
    ELSE IF m.type = "ASYNC_DONE"
    THEN IF m.src = "pipe"
         THEN [next |-> "return", data |-> d, exc |-> NoExc]
         ELSE [next |-> "continue", data |-> d, exc |-> NoExc]
    ELSE IF m.type = "TAG"
    THEN [next |-> "continue", data |-> MergeTags(d, m.taglist), exc |-> NoExc]
    ELSE [next |-> "continue", data |-> d, exc |-> NoExc]

\* Mutant of Classify: ASYNC_DONE ends collection whatever its source.
Classify_AnySettle(m, d) ==
    IF m.type = "ERROR"
    THEN [next |-> "raise", data |-> d, exc |-> ScannerError(m.text)]
    ELSE IF m.type = "EOS"
    THEN [next |-> "return", data |-> d, exc |-> NoExc]
    ELSE IF m.type = "ASYNC_DONE"
    THEN [next |-> "return", data |-> d, exc |-> NoExc]
    ELSE IF m.type = "TAG"
    THEN [next |-> "continue", data |-> MergeTags(d, m.taglist), exc |-> NoExc]
    ELSE [next |-> "continue", data |-> d, exc |-> NoExc]

\* _collect: what the loop body does with a popped message m while the
\* collected tags are d: raise, return or go on polling.
Classify(m, d) ==
    IF m.type = "ERROR"
    THEN [next |-> "raise", data |-> d, exc |-> ScannerError(m.text)]
    ELSE IF m.type = "EOS"
    THEN [next |-> "return", data |-> d, exc |-> NoExc]
    ELSE IF m.type = "ASYNC_DONE"
    THEN IF m.src = "pipe"
         THEN [next |-> "return", data |-> d, exc |-> NoExc]
         ELSE [next |-> "continue", data |-> d, exc |-> NoExc]
    ELSE IF m.type = "TAG"
    THEN [next |-> "continue", data |-> MergeTags(d, m.taglist), exc |-> NoExc]
    ELSE [next |-> "continue", data |-> d, exc |-> NoExc]

\* _collect: one iteration that finds a message pending: pop and classify.
LoopPop ==
    /\ pc = "loop"
    /\ LoopCondition
    /\ bus # <<>>
    /\ LET m == Head(bus).msg
           r == Classify(m, data)
       IN /\ message' = m
          /\ data' = r.data
          /\ exc' = r.exc
          /\ pc' = CASE r.next = "raise" -> "reset_flush"
                     [] r.next = "return" -> "fin_uri"
                     [] OTHER -> "loop"
    /\ popped' = popped \cup {Head(bus).gen}
    /\ bus' = Tail(bus)
    /\ UNCHANGED <<aggregator, result, config, pipeState, uribinUri, flushing, uri, now, start,
                   outcome, queries, scanNo>>

\* LoopTimeout, were the data collected so far returned at the deadline.
LoopTimeout_Finalizes ==
    /\ pc = "loop"
    /\ ~LoopCondition
    /\ exc' = exc
    /\ pc' = "fin_uri"
    /\ UNCHANGED <<aggregator, result, config, pipeState, uribinUri, flushing, bus, uri, now, locals,
                   outcome, queries, scanNo, popped>>

\* _collect: the loop condition fails:
\* raise exceptions.ScannerError('Timeout after %dms' % self._timeout_ms)
LoopTimeout ==
    /\ pc = "loop"
    /\ ~LoopCondition
    /\ exc' = ScannerError("Timeout")
    /\ pc' = "reset_flush"
    /\ UNCHANGED <<aggregator, result, config, pipeState, uribinUri, flushing, bus, uri, now, locals,
                   outcome, queries, scanNo, popped>>

\* scan: data[b'uri'] = uri
FinUri ==
    /\ pc = "fin_uri"
    /\ data' = DictSet(data, "uri", uri)
    /\ pc' = "fin_mtime"
    /\ UNCHANGED <<aggregator, result, config, pipeState, uribinUri, flushing, bus, uri, now, start,
                   message, exc, outcome, queries, scanNo, popped>>

\* uri.startswith('file:') on the locators of the model
IsFileUri(u) == u = "file:a"

\* scan: data[b'mtime'] = self._query_mtime(uri).  os.path.getmtime raises
\* OSError when the file cannot be examined; nothing catches it.
FinMtime ==
    /\ pc = "fin_mtime"
    /\ IF ~IsFileUri(uri)
       THEN /\ mtimeResult' = None
            /\ data' = DictSet(data, "mtime", None)
            /\ exc' = exc
            /\ pc' = "fin_duration"
       ELSE \E t \in Mtimes :
            /\ mtimeResult' = t
            /\ IF t = None
               THEN /\ data' = data
                    /\ exc' = <<"OSError", "getmtime">>
                    /\ pc' = "reset_flush"
               ELSE /\ data' = DictSet(data, "mtime", t)
                    /\ exc' = exc
                    /\ pc' = "fin_duration"
    /\ UNCHANGED <<aggregator, result, config, pipeState, uribinUri, flushing, bus, uri, now, start,
                   message, outcome, durationResult, scanNo, popped>>

\* FinDuration, were the duration stored in milliseconds.
FinDuration_Ms ==
    /\ pc = "fin_duration"
    /\ \E d \in Durations :
          /\ durationResult' = d
          /\ data' = DictSet(data, "duration",
                             IF d = None THEN None ELSE Some(d[1] \div MSECOND))
    /\ pc' = "reset_flush"
    /\ UNCHANGED <<aggregator, result, config, pipeState, uribinUri, flushing, bus, uri, now, start,
                   message, exc, outcome, mtimeResult, scanNo, popped>>

\* scan: data[gst.TAG_DURATION] = self._query_duration(); gst.QueryError is
\* caught and gives None.
FinDuration ==
    /\ pc = "fin_duration"
    /\ \E d \in Durations :
          /\ durationResult' = d
          /\ data' = DictSet(data, "duration", d)
    /\ pc' = "reset_flush"
    /\ UNCHANGED <<aggregator, result, config, pipeState, uribinUri, flushing, bus, uri, now, start,
                   message, exc, outcome, mtimeResult, scanNo, popped>>

\* Mutant of ResetFlush: _reset leaves the bus as it is.
ResetFlush_NoFlush ==
    /\ pc = "reset_flush"
    /\ pc' = "reset_null"
    /\ UNCHANGED <<aggregator, result, config, pipeState, uribinUri, flushing, bus, uri, now, locals,
                   exc, outcome, queries, scanNo, popped>>

\* _reset (finally): self._bus.set_flushing(True) drops what is queued.
ResetFlush ==
    /\ pc = "reset_flush"
    /\ flushing' = TRUE
    /\ bus' = <<>>
    /\ pc' = "reset_null"
    /\ UNCHANGED <<aggregator, result, config, pipeState, uribinUri, uri, now, locals, exc, outcome,
                   queries, scanNo, popped>>

\* Mutant of ResetNull: _reset leaves the pipeline in the state it has.
ResetNull_NoNull ==
    /\ pc = "reset_null"
    /\ IF exc # NoExc
       THEN /\ outcome' = <<"raise">> \o exc
            /\ pc' = "idle"
       ELSE /\ outcome' = outcome
            /\ pc' = "accept"
    /\ UNCHANGED <<aggregator, result, config, pipeState, uribinUri, flushing, bus, uri, now, locals,
                   exc, queries, scanNo, popped>>

\* _reset (finally): self._pipe.set_state(gst.STATE_NULL); a pending
\* exception then leaves scan.
ResetNull ==
    /\ pc = "reset_null"
    /\ pipeState' = "NULL"
    /\ IF exc # NoExc
       THEN /\ outcome' = <<"raise">> \o exc
            /\ pc' = "idle"
       ELSE /\ outcome' = outcome
            /\ pc' = "accept"
    /\ UNCHANGED <<aggregator, result, config, uribinUri, flushing, bus, uri, now, locals, exc,
                   queries, scanNo, popped>>

\* scan: the test of lines 64-67 that lets the call return data
Accepted ==
    \/ min_duration_ms = None
    \/ PyGE(data["duration"], Some(min_duration_ms[1] * MSECOND))

\* scan: return data, or raise ScannerError('Rejecting file ...')
Accept ==
    /\ pc = "accept"
    /\ outcome' = IF Accepted THEN <<"return">>
                  ELSE <<"raise">> \o ScannerError("Rejecting")
    /\ pc' = "idle"
    /\ UNCHANGED <<aggregator, result, config, pipeState, uribinUri, flushing, bus, uri, now, locals,
                   exc, queries, scanNo, popped>>

Next ==
    \/ Post
    \/ Tick
    \/ Scan
    \/ SetupReady
    \/ SetupUri
    \/ SetupFlush
    \/ SetupPaused
    \/ SetupPlaying
    \/ CollectStart
    \/ LoopPop
    \/ LoopTimeout
    \/ FinUri
    \/ FinMtime
    \/ FinDuration
    \/ ResetFlush
    \/ ResetNull
    \/ Accept

Spec == Init /\ [][Next]_vars

\* The statements of a running call: everything but the caller starting a
\* call, the engine posting and the clock.
Step ==
    \/ SetupReady \/ SetupUri \/ SetupFlush \/ SetupPaused \/ SetupPlaying
    \/ CollectStart \/ LoopPop \/ LoopTimeout
    \/ FinUri \/ FinMtime \/ FinDuration
    \/ ResetFlush \/ ResetNull \/ Accept

\* The thread running scan keeps running and wall-clock time advances; the
\* caller and the engine are under no obligation.
FairSpec == Spec /\ WF_vars(Step) /\ WF_vars(Tick)


\* ------------------------------------------------- audio_data_to_track
\* Tag values as audio_data_to_track tells them apart: a single string
\* (basestring) or a list of strings.
Str(s) == <<"str", s>>
List(seq) == <<"list">> \o seq

\* isinstance(value, basestring)
IsBasestring(value) == value[1] = "str"

\* The strings of a list value, in order.
Elements(value) == Tail(value)

\* Truth value of an optional number: None and 0 are false.
Truthy(opt) == opt # None /\ opt[1] # 0

\* Mutant of Retrieve: target[target_key] = data[source_key], which replaces
\* a value set earlier.
Retrieve_Overwrite(d, source_key, target_key, target) ==
    IF source_key \in DOMAIN d
    THEN DictSet(target, target_key, d[source_key])
    ELSE target

\* _retrieve: if source_key in data:
\*                target.setdefault(target_key, data[source_key])
Retrieve(d, source_key, target_key, target) ==
    IF source_key \in DOMAIN d /\ target_key \notin DOMAIN target
    THEN DictSet(target, target_key, d[source_key])
    ELSE target

\* The calls of _retrieve in the order the function makes them:
\* <<source key, target key, target dict>>.
RetrieveCalls ==
    << <<"album", "name", "album">>,
       <<"track-count", "num_tracks", "album">>,
       <<"album-disc-count", "num_discs", "album">>,
       <<"artist", "name", "artist">>,
       <<"composer", "name", "composer">>,
       <<"performer", "name", "performer">>,
       <<"album-artist", "name", "albumartist">>,
       <<"title", "name", "track">>,
       <<"track-number", "track_no", "track">>,
       <<"album-disc-number", "disc_no", "track">>,
       <<"genre", "genre", "track">>,
       <<"bitrate", "bitrate", "track">>,
       <<"comment", "comment", "track">>,
       <<"musicbrainz-trackid", "musicbrainz_id", "track">>,
       <<"musicbrainz-artistid", "musicbrainz_id", "artist">>,
       <<"musicbrainz-albumid", "musicbrainz_id", "album">>,
       <<"musicbrainz-albumartistid", "musicbrainz_id", "albumartist">>,
       <<"organization", "name", "track">>,
       <<"location", "comment", "track">>,
       <<"copyright", "comment", "track">> >>

\* The six kwargs dicts, all empty.
NoKwargs ==
    [album |-> EmptyDict, artist |-> EmptyDict, composer |-> EmptyDict,
     performer |-> EmptyDict, albumartist |-> EmptyDict, track |-> EmptyDict]

\* The kwargs dicts after the first n calls of _retrieve.
RECURSIVE Retrieved(_, _)
Retrieved(d, n) ==
    IF n = 0 THEN NoKwargs
    ELSE LET kw == Retrieved(d, n - 1)
             c == RetrieveCalls[n]
         IN [kw EXCEPT ![c[3]] = Retrieve(d, c[1], c[2], kw[c[3]])]

\* datetime.date(year, month, day) raises ValueError unless this holds.
IsLeap(y) == (y % 4 = 0 /\ y % 100 # 0) \/ y % 400 = 0

DaysInMonth(y, m) ==
    IF m = 2 THEN (IF IsLeap(y) THEN 29 ELSE 28)
    ELSE IF m \in {4, 6, 9, 11} THEN 30 ELSE 31

ValidDate(date) ==
    /\ date[1] >= 1 /\ date[1] <= 9999
    /\ date[2] >= 1 /\ date[2] <= 12
    /\ date[3] >= 1 /\ date[3] <= DaysInMonth(date[1], date[2])

\* n in decimal, zero-padded to w digits (w is 2 or 4)
Pad(n, w) ==
    LET zeros == IF n < 10 THEN w - 1
                 ELSE IF n < 100 THEN w - 2
                 ELSE IF n < 1000 THEN w - 3 ELSE 0
    IN (CASE zeros = 3 -> "000" [] zeros = 2 -> "00" [] zeros = 1 -> "0"
          [] OTHER -> "") \o ToString(n)

\* date.isoformat()
Isoformat(date) ==
    Pad(date[1], 4) \o "-" \o Pad(date[2], 2) \o "-" \o Pad(date[3], 2)

\* Mutant of WithDate: the date is rendered without datetime.date checking it.
WithDate_Unchecked(d, track_kwargs) ==
    IF "date" \in DOMAIN d /\ d["date"] # None
    THEN DictSet(track_kwargs, "date", Isoformat(d["date"]))
    ELSE track_kwargs

\* lines 163-170: the date, when there is one and it is a calendar date
WithDate(d, track_kwargs) ==
    IF "date" \in DOMAIN d /\ d["date"] # None
    THEN IF ValidDate(d["date"])
         THEN DictSet(track_kwargs, "date", Isoformat(d["date"]))
         ELSE track_kwargs
    ELSE track_kwargs

\* lines 175-179: last_modified and length
WithScalars(d, track_kwargs) ==
    LET m == IF Truthy(d["mtime"])
             THEN DictSet(track_kwargs, "last_modified", d["mtime"][1])
             ELSE track_kwargs
    IN IF Truthy(d["duration"])
       THEN DictSet(m, "length", d["duration"][1] \div MSECOND)
       ELSE m

\* mopidy.models: Artist(**kwargs), Album(**kwargs) and Track(**kwargs) are
\* records of the arguments they are given; an Album given no artists has
\* an empty artist list.
Artist(kwargs) == kwargs
Album(kwargs) ==
    IF "artists" \in DOMAIN kwargs THEN kwargs
    ELSE DictSet(kwargs, "artists", <<>>)
Track(kwargs) == kwargs

\* Mutant of AlbumKwargs: the album gets its artist list in any case.
AlbumKwargs_Always(album_kwargs, albumartist_kwargs) ==
    DictSet(album_kwargs, "artists", <<Artist(albumartist_kwargs)>>)

\* lines 172-173: if albumartist_kwargs:
\*                    album_kwargs['artists'] = [Artist(**albumartist_kwargs)]
AlbumKwargs(album_kwargs, albumartist_kwargs) ==
    IF albumartist_kwargs # EmptyDict
    THEN DictSet(album_kwargs, "artists", <<Artist(albumartist_kwargs)>>)
    ELSE album_kwargs

\* [Artist(name=artist) for artist in kwargs['name']]
Expand(value) ==
    [i \in 1..Len(Elements(value)) |->
        Artist([k \in {"name"} |-> Str(Elements(value)[i])])]

IsMultiValued(kwargs) ==
    "name" \in DOMAIN kwargs /\ ~IsBasestring(kwargs["name"])

\* Mutant of Artists: the other attributes of the group go to every
\* expanded artist.
Artists_Distributed(artist_kwargs) ==
    IF IsMultiValued(artist_kwargs)
    THEN [i \in 1..Len(Elements(artist_kwargs["name"])) |->
            Artist(DictSet(artist_kwargs, "name",
                           Str(Elements(artist_kwargs["name"])[i])))]
    ELSE <<Artist(artist_kwargs)>>

\* lines 184-189: track_kwargs['artists']
Artists(artist_kwargs) ==
    IF IsMultiValued(artist_kwargs)
    THEN Expand(artist_kwargs["name"])
    ELSE <<Artist(artist_kwargs)>>

\* Mutant of OtherArtists: composers and performers default like artists.
OtherArtists_Placeholder(kwargs) ==
    IF IsMultiValued(kwargs)
    THEN Expand(kwargs["name"])
    ELSE <<Artist(kwargs)>>

\* lines 191-205: track_kwargs['composers'] and track_kwargs['performers'];
\* '' is the empty sequence.
OtherArtists(kwargs) ==
    IF IsMultiValued(kwargs)
    THEN Expand(kwargs["name"])
    ELSE IF kwargs # EmptyDict THEN <<Artist(kwargs)>> ELSE <<>>

\* audio_data_to_track(data)
AudioDataToTrack(d) ==
    LET kw == Retrieved(d, Len(RetrieveCalls))
        album_kwargs == AlbumKwargs(kw.album, kw.albumartist)
        t1 == WithScalars(d, WithDate(d, kw.track))
        t2 == DictSet(t1, "uri", d["uri"])
        t3 == DictSet(t2, "album", Album(album_kwargs))
        t4 == DictSet(t3, "artists", Artists(kw.artist))
        t5 == DictSet(t4, "composers", OtherArtists(kw.composer))
        t6 == DictSet(t5, "performers", OtherArtists(kw.performer))
    IN Track(t6)

\* ---- the inputs audio_data_to_track is applied to
\* A key the dict does not have.
Absent == <<"absent">>

\* Names a multi-valued tag carries, in the order it carries them.
NamePool == <<"B", "A", "D", "C">>

\* What the artist tag can hold: nothing, one string, or a list of
\* 1..MaxNames strings; the composer and performer tags: nothing, one
\* string, or the list of MaxNames strings.
NameChoices ==
    {Absent, Str("N")} \cup {List(SubSeq(NamePool, 1, n)) : n \in 1..MaxNames}

OtherNameChoices ==
    {Absent, Str("N"), List(SubSeq(NamePool, 1, MaxNames))}

Optional(value) == {Absent, value}

\* Dates: none, a false value, 0-0-0, 29 February of a common year and of a
\* leap year, the last day of a year.
DateChoices ==
    {Absent, None, <<0, 0, 0>>, <<2013, 2, 29>>, <<2012, 2, 29>>, <<2013, 12, 31>>}

\* The tags no rule but _retrieve looks at: none or all of them.
PlainTags ==
    [k \in {"album", "track-count", "album-disc-count", "track-number",
            "album-disc-number", "genre", "bitrate", "musicbrainz-trackid",
            "musicbrainz-albumid"} |-> Str(k)]

\* uri, mtime and duration as Scanner.scan leaves them, without the plain
\* tags or with them.
Bases ==
    { MergeTags(r[3], [k \in {"uri", "mtime", "duration"} |->
                         CASE k = "uri" -> "file:a" [] k = "mtime" -> r[1]
                           [] k = "duration" -> r[2]])
        : r \in {<<None, None, EmptyDict>>, <<Some(0), Some(0), PlainTags>>,
                  <<Some(5), Some(150 * MSECOND + 1), PlainTags>>} }

\* base with pairs[i][1] |-> pairs[i][2] added for every pair that is not Absent
WithTags(base, pairs) ==
    LET present == {i \in 1..Len(pairs) : pairs[i][2] # Absent}
        keys == {pairs[i][1] : i \in present}
    IN [k \in DOMAIN base \cup keys |->
          IF k \in keys
          THEN pairs[CHOOSE i \in present : pairs[i][1] = k][2]
          ELSE base[k]]

\* A caller holds some dict of tags and has not called audio_data_to_track.
AggInit ==
    /\ timeout_ms = 1000
    /\ min_duration_ms = Some(100)
    /\ Constructed
    /\ track = NoTrack
    /\ \E base \in Bases,
          title \in Optional(Str("T")), organization \in Optional(Str("O")),
          comment \in Optional(Str("Cm")), location \in Optional(Str("L")),
          copyright \in Optional(Str("Cp")),
          artist \in NameChoices, composer \in OtherNameChoices,
          performer \in OtherNameChoices,
          artistid \in Optional(Str("mb-artist")),
          albumartist \in Optional(Str("AA")),
          albumartistid \in Optional(Str("mb-albumartist")),
          date \in DateChoices :
          audio_data = WithTags(base,
              << <<"title", title>>, <<"organization", organization>>,
                 <<"comment", comment>>, <<"location", location>>,
                 <<"copyright", copyright>>, <<"artist", artist>>,
                 <<"composer", composer>>, <<"performer", performer>>,
                 <<"musicbrainz-artistid", artistid>>,
                 <<"album-artist", albumartist>>,
                 <<"musicbrainz-albumartistid", albumartistid>>,
                 <<"date", date>> >>)

scanner == <<timeout_ms, min_duration_ms, pipeState, uribinUri, flushing, bus,
             pc, uri, now, start, data, message, exc, outcome, mtimeResult,
             durationResult, scanNo, popped, result>>

\* track = audio_data_to_track(data)
Convert ==
    /\ track = NoTrack
    /\ track' = AudioDataToTrack(audio_data)
    /\ UNCHANGED <<audio_data, scanner>>

AggNext == Convert

AggSpec == AggInit /\ [][AggNext]_vars

\* ------------------------------------------------------------- vocabulary
\* The last call has ended.
Finished == outcome # <<"none">>

Returned == outcome = <<"return">>

Rejected == outcome = <<"raise">> \o ScannerError("Rejecting")

\* _collect returned data: the message popped last is end-of-stream or the
\* pipeline's own ASYNC_DONE.
Collected ==
    \/ message.type = "EOS"
    \/ message.type = "ASYNC_DONE" /\ message.src = "pipe"

\* The duration query of this call was made and did not fail.
DurationPresent == durationResult # Unset /\ durationResult # None

\* The phase of the call at a position of scan: _setup, _collect, the three
\* assignments after it, _reset, the test after the try statement.
PhaseOf(p) ==
    CASE p = "idle" -> "IDLE"
      [] p \in {"setup_ready", "setup_uri", "setup_flush", "setup_paused",
                "setup_playing"} -> "PRIMING"
      [] p \in {"collect", "loop"} -> "COLLECTING"
      [] p \in {"fin_uri", "fin_mtime", "fin_duration"} -> "DONE"
      [] p \in {"reset_flush", "reset_null"} -> "TEARDOWN"
      [] OTHER -> "ACCEPTANCE"

\* The phase changes of scan that follow the order setup, collection,
\* finalization or failure, teardown, acceptance.
OrderedEdges ==
    {<<"IDLE", "PRIMING">>, <<"PRIMING", "COLLECTING">>,
     <<"COLLECTING", "DONE">>, <<"COLLECTING", "TEARDOWN">>,
     <<"DONE", "TEARDOWN">>, <<"TEARDOWN", "ACCEPTANCE">>,
     <<"TEARDOWN", "IDLE">>, <<"ACCEPTANCE", "IDLE">>}

\* What holds of finalization, failure and acceptance in every step: only a
\* call whose collection ended by a terminal message that is no error
\* finalizes, and teardown has not run then; collection is left for teardown
\* only by ScannerError; teardown is left for the acceptance test when no
\* exception is pending and for the caller otherwise; the acceptance test
\* runs on the instance as teardown left it.
PhaseConditions ==
    /\ PhaseOf(pc) = "DONE" =>
          (Collected /\ exc = NoExc /\ ~flushing /\ pipeState # "NULL")
    /\ (PhaseOf(pc) = "COLLECTING" /\ PhaseOf(pc') = "TEARDOWN") =>
          exc'[1] = "ScannerError"
    /\ (PhaseOf(pc) = "TEARDOWN" /\ PhaseOf(pc') = "ACCEPTANCE") => exc = NoExc
    /\ (PhaseOf(pc) = "TEARDOWN" /\ PhaseOf(pc') = "IDLE") => exc # NoExc
    /\ PhaseOf(pc) = "ACCEPTANCE" =>
          (exc = NoExc /\ flushing /\ bus = <<>> /\ pipeState = "NULL")

\* The step pops the head of the bus inside the polling loop.
PopStep == pc = "loop" /\ bus # <<>> /\ bus' = Tail(bus)

\* -------------------------------------------------------------------- C1
\* C1: teardown runs on every exit path of scan.  However the call ended
\* (return, engine error, timeout, an exception in setup or finalization,
\* rejection), it has ended only after _reset: the bus is flushing and holds
\* nothing, and the pipeline is in NULL.
C1_TeardownOnEveryExit ==
    Finished => /\ pc = "idle"
                /\ flushing
                /\ bus = <<>>
                /\ pipeState = "NULL"

\* A call that ended by the exception of the modification-time lookup.
C1_Witness ==
    /\ outcome = <<"raise", "OSError", "getmtime">>
    /\ flushing
    /\ pipeState = "NULL"

\* -------------------------------------------------------------------- C2
\* C2: in the data of every call that passed finalization, and so of every
\* call that returns, uri is the argument and mtime and duration are what
\* the lookups of this call gave, whatever keys the tag messages carried.
C2_ReservedKeys ==
    (pc = "accept" \/ Returned) =>
        /\ {"uri", "mtime", "duration"} \subseteq DOMAIN data
        /\ data["uri"] = uri
        /\ data["mtime"] = mtimeResult
        /\ data["duration"] = durationResult

\* A call returned after both tag lists, with their uri, mtime and duration
\* keys, were merged.
C2_Witness ==
    /\ Returned
    /\ {"artist", "genre"} \subseteq DOMAIN data
    /\ data["uri"] = uri

\* -------------------------------------------------------------------- C3
\* C3: once an error message is popped nothing more is popped in that call:
\* the call is on its way out through _reset with ScannerError carrying the
\* message's text, and it ends raising it, not returning.
C3_ErrorTerminates ==
    message.type = "ERROR" =>
        /\ pc \in {"reset_flush", "reset_null", "idle"}
        /\ pc # "idle" => exc = ScannerError(message.text)
        /\ pc = "idle" => outcome = <<"raise">> \o ScannerError(message.text)

\* An error was popped after tags were collected and with a tag or terminal
\* message queued behind it.
C3_Witness ==
    /\ message.type = "ERROR"
    /\ pc = "reset_flush"
    /\ data # EmptyDict
    /\ bus # <<>>
    /\ Head(bus).msg.type \in {"TAG", "EOS"}

\* -------------------------------------------------------------------- C4
\* C4: popping an ASYNC_DONE whose source is not the pipeline leaves the call
\* polling with its data untouched; the loop is left for finalization only by
\* popping end-of-stream or the pipeline's ASYNC_DONE, and is left otherwise
\* only by an error message or by the deadline.
C4_ChildSettleIgnored ==
    [][ /\ (PopStep /\ Head(bus).msg.type = "ASYNC_DONE"
                    /\ Head(bus).msg.src # "pipe")
              => (pc' = "loop" /\ data' = data /\ exc' = NoExc)
        /\ (pc = "loop" /\ pc' = "fin_uri")
              => /\ PopStep
                 /\ \/ Head(bus).msg.type = "EOS"
                    \/ /\ Head(bus).msg.type = "ASYNC_DONE"
                       /\ Head(bus).msg.src = "pipe"
        /\ (pc = "loop" /\ pc' \notin {"loop", "fin_uri"})
              => /\ pc' = "reset_flush"
                 /\ \/ PopStep /\ Head(bus).msg.type = "ERROR"
                    \/ ~(now - start < timeout_ms) /\ exc' = ScannerError("Timeout")
      ]_vars

\* A child's ASYNC_DONE was popped, the call still polls, and the pipeline's
\* own ASYNC_DONE is next.
C4_Witness ==
    /\ pc = "loop"
    /\ message.type = "ASYNC_DONE"
    /\ message.src # "pipe"
    /\ bus # <<>>
    /\ Head(bus).msg.type = "ASYNC_DONE"
    /\ Head(bus).msg.src = "pipe"

\* -------------------------------------------------------------------- C5
\* C5: the deadline is measured from loop entry and nothing resets it.  While
\* the call polls start does not change, and once timeout_ms has elapsed
\* since start the loop consumes nothing more, whatever is pending: its only
\* step is to raise the timeout ScannerError.  With timeout_ms = 0 that is
\* so from loop entry on.
C5_LoopWideDeadline ==
    [][ /\ (pc = "loop" /\ pc' = "loop") => start' = start
        /\ (pc = "loop" /\ now - start >= timeout_ms)
              => /\ data' = data
                 /\ message' = message
                 /\ \/ pc' = "loop"
                    \/ pc' = "reset_flush" /\ exc' = ScannerError("Timeout")
      ]_vars

\* A timeout after tags were consumed and with messages still pending.
C5_Witness ==
    /\ pc = "reset_flush"
    /\ exc = ScannerError("Timeout")
    /\ timeout_ms > 0
    /\ "artist" \in DOMAIN data
    /\ bus # <<>>

\* -------------------------------------------------------------------- C6
\* C6: with a minimum duration set, a call whose collection completed
\* returns exactly when the duration is present and, in ms, at least the
\* minimum; otherwise it raises ScannerError.
C6_MinDurationIff ==
    (Finished /\ Collected /\ min_duration_ms # None) =>
        /\ Returned <=> /\ DurationPresent
                        /\ durationResult[1] \div MSECOND >= min_duration_ms[1]
        /\ ~Returned => outcome[2] = "ScannerError"

\* Lemma (lines 64-70 alone): a call that got as far as the duration query
\* returns exactly when no minimum is set or the duration is present and, in
\* ms, at least the minimum; otherwise it is rejected with ScannerError.
AcceptanceLemma ==
    (Finished /\ Collected /\ durationResult # Unset) =>
        /\ Returned <=>
              \/ min_duration_ms = None
              \/ /\ DurationPresent
                 /\ durationResult[1] \div MSECOND >= min_duration_ms[1]
        /\ ~Returned => Rejected

\* -------------------------------------------------------------------- C7
\* C7: with min_duration None every call whose collection completed returns
\* its data.
C7_UnboundedNeverRejects ==
    (Finished /\ Collected /\ min_duration_ms = None) => Returned

\* -------------------------------------------------------------------- C8
\* C8: with min_duration = -1 no call whose collection completed is rejected
\* for its duration, whatever the duration query gave.
C8_MinusOneAcceptsAll ==
    (Finished /\ Collected /\ min_duration_ms = Some(-1)) => ~Rejected

\* -------------------------------------------------------------------- C9
\* C9: the instance is reusable.  Between calls it is as __init__ left it
\* (bus flushing and empty, pipeline in NULL); every message queued or popped
\* during a call was posted during that call; and the call polls from an
\* empty data dict, so its data holds only keys of tag lists it popped.
C9_Reusable ==
    /\ pc = "idle" => (flushing /\ bus = <<>> /\ pipeState = "NULL")
    /\ \A i \in 1..Len(bus) : bus[i].gen = scanNo
    /\ popped \subseteq {scanNo}
    /\ (pc = "loop" /\ popped = {}) => data = EmptyDict
    /\ pc \in {"collect", "loop"} => uribinUri = uri

\* A second call on the instance returned tags of its own.
C9_Witness ==
    /\ scanNo = 2
    /\ Returned
    /\ popped = {2}
    /\ "artist" \in DOMAIN data

\* ------------------------------------------------------------------- C10
\* C10: a failed modification-time lookup or duration query raises nothing
\* and leaves None under its key.
C10_QueryFailuresNonFatal ==
    /\ mtimeResult = None =>
          (exc = NoExc /\ "mtime" \in DOMAIN data /\ data["mtime"] = None)
    /\ durationResult = None =>
          (exc = NoExc /\ "duration" \in DOMAIN data /\ data["duration"] = None)


\* ------------------------------------------------------------------- C11
\* C11: every call of scan terminates.  While the thread runs and the clock
\* advances, a call that has started ends, by return or by raise, with the
\* instance torn down, whatever the engine posts or fails to post.
C11_Terminates ==
    (pc # "idle") ~> (pc = "idle" /\ Finished /\ flushing /\ pipeState = "NULL")

\* A call ended by the timeout after it had consumed messages that do not
\* end collection.
C11_Witness ==
    /\ pc = "idle"
    /\ outcome = <<"raise">> \o ScannerError("Timeout")
    /\ timeout_ms > 0
    /\ message.type \in {"TAG", "STATE_CHANGED", "ASYNC_DONE"}


\* ---------------------------------------------- vocabulary, aggregator
\* audio_data_to_track has returned.
Converted == track # NoTrack

\* The tag was collected.
Has(key) == key \in DOMAIN audio_data

\* The record with a name and a musicbrainz_id field for the tags, of the
\* two, that were collected.
RecordOf(nameKey, idKey) ==
    [k \in (IF Has(nameKey) THEN {"name"} ELSE {})
           \cup (IF Has(idKey) THEN {"musicbrainz_id"} ELSE {}) |->
        IF k = "name" THEN audio_data[nameKey] ELSE audio_data[idKey]]

\* The tag holds a list of strings, not a single string.
IsList(key) == Has(key) /\ audio_data[key][1] = "list"

\* The artists are one per string of the list the tag holds, in the list's
\* order, each a record of that string as its name and of nothing else.
NamedAfterList(artists, key) ==
    /\ Len(artists) = Len(audio_data[key]) - 1
    /\ \A i \in 1..Len(artists) :
          artists[i] = [k \in {"name"} |-> Str(audio_data[key][i + 1])]

\* -------------------------------------------------------------------- C12
\* C12: first writer wins, in the order of the table.  track.name is the
\* title when there is one, else the organization, else missing;
\* track.comment is the comment, else the location, else the copyright, else
\* missing.
C12_FirstWriterWins ==
    Converted =>
        /\ IF Has("title") THEN track["name"] = audio_data["title"]
           ELSE IF Has("organization")
                THEN track["name"] = audio_data["organization"]
                ELSE "name" \notin DOMAIN track
        /\ IF Has("comment") THEN track["comment"] = audio_data["comment"]
           ELSE IF Has("location")
                THEN track["comment"] = audio_data["location"]
                ELSE IF Has("copyright")
                     THEN track["comment"] = audio_data["copyright"]
                     ELSE "comment" \notin DOMAIN track

\* Title and organization both collected, and location and copyright
\* without a comment.
C12_Witness ==
    /\ Converted
    /\ Has("title") /\ Has("organization")
    /\ track["name"] = Str("T")
    /\ ~Has("comment") /\ Has("location") /\ Has("copyright")
    /\ track["comment"] = Str("L")

\* -------------------------------------------------------------------- C13
\* C13: a name tag holding a list of n strings gives n artists, in the
\* list's order, the i-th with the i-th string as its name and nothing else
\* (no musicbrainz_id, collected or not); a name tag holding one string gives
\* one artist with that name and, for the artist group, the collected
\* musicbrainz-artistid.
C13_MultiValuedNames ==
    Converted =>
        /\ IsList("artist") => NamedAfterList(track["artists"], "artist")
        /\ IsList("composer") => NamedAfterList(track["composers"], "composer")
        /\ IsList("performer") => NamedAfterList(track["performers"], "performer")
        /\ (Has("artist") /\ ~IsList("artist")) =>
              track["artists"] = <<RecordOf("artist", "musicbrainz-artistid")>>
        /\ (Has("composer") /\ ~IsList("composer")) =>
              track["composers"] = <<[k \in {"name"} |-> audio_data["composer"]]>>
        /\ (Has("performer") /\ ~IsList("performer")) =>
              track["performers"] = <<[k \in {"name"} |-> audio_data["performer"]]>>

\* An artist tag of two names together with a musicbrainz-artistid.
C13_Witness ==
    /\ Converted
    /\ IsList("artist")
    /\ Has("musicbrainz-artistid")
    /\ Len(track["artists"]) = 2
    /\ track["artists"][1] = [k \in {"name"} |-> Str("B")]
    /\ track["artists"][2] = [k \in {"name"} |-> Str("A")]

\* -------------------------------------------------------------------- C14
\* C14: the album has at most one artist: exactly one, built from the
\* album-artist name and musicbrainz-albumartistid that were collected, when
\* either was collected, and none otherwise.
C14_AlbumArtist ==
    Converted =>
        LET artists == track["album"]["artists"]
            collected == Has("album-artist") \/ Has("musicbrainz-albumartistid")
        IN /\ Len(artists) <= 1
           /\ collected <=> Len(artists) = 1
           /\ collected =>
                 artists[1] = RecordOf("album-artist", "musicbrainz-albumartistid")

\* Only the musicbrainz-albumartistid was collected.
C14_Witness ==
    /\ Converted
    /\ ~Has("album-artist")
    /\ Has("musicbrainz-albumartistid")
    /\ Len(track["album"]["artists"]) = 1

\* -------------------------------------------------------------------- C15
\* C15: a date that is no calendar date (0-0-0, 29 February 2013) leaves the
\* track without a date field and the track is still built; a calendar date
\* is rendered as ISO 8601.
C15_InvalidDateDropped ==
    Converted =>
        /\ {"uri", "album", "artists"} \subseteq DOMAIN track
        /\ IF ~Has("date") THEN "date" \notin DOMAIN track
           ELSE IF audio_data["date"] \in {<<0, 0, 0>>, <<2013, 2, 29>>}
                THEN "date" \notin DOMAIN track
           ELSE IF audio_data["date"] = <<2012, 2, 29>>
                THEN track["date"] = "2012-02-29"
           ELSE IF audio_data["date"] = <<2013, 12, 31>>
                THEN track["date"] = "2013-12-31"
           ELSE "date" \notin DOMAIN track

\* The date 0-0-0 was collected and a track came out, without a date.
C15_Witness ==
    /\ Converted
    /\ Has("date")
    /\ audio_data["date"] = <<0, 0, 0>>
    /\ "date" \notin DOMAIN track
    /\ "uri" \in DOMAIN track

\* -------------------------------------------------------------------- C16
\* C16: with no artist name collected the track has exactly one artist,
\* built from the artist attributes that were collected (possibly none);
\* with no composer, respectively performer, collected, composers,
\* respectively performers, is empty.
C16_GroupDefaults ==
    Converted =>
        /\ ~Has("artist") =>
              track["artists"] = <<RecordOf("artist", "musicbrainz-artistid")>>
        /\ ~Has("composer") => track["composers"] = <<>>
        /\ ~Has("performer") => track["performers"] = <<>>

\* Nothing was collected for any of the three groups.
C16_Witness ==
    /\ Converted
    /\ ~Has("artist") /\ ~Has("musicbrainz-artistid")
    /\ ~Has("composer") /\ ~Has("performer")
    /\ track["artists"] = <<EmptyDict>>
    /\ track["composers"] = <<>>

C18_PhaseOrder ==
    [][/\ PhaseOf(pc') # PhaseOf(pc) => <<PhaseOf(pc), PhaseOf(pc')>> \in OrderedEdges
       /\ PhaseConditions]_vars

\* C18, amended: as stated, but for a call whose setup raises: it leaves
\* PRIMING for teardown with the exception pending, without collecting.
C18_PhaseOrderOrSetupRaises ==
    [][/\ PhaseOf(pc') # PhaseOf(pc) =>
             \/ <<PhaseOf(pc), PhaseOf(pc')>> \in OrderedEdges
             \/ /\ PhaseOf(pc) = "PRIMING"
                /\ PhaseOf(pc') = "TEARDOWN"
                /\ exc = NoExc
                /\ exc' # NoExc
       /\ PhaseConditions]_vars

\* Teardown begins for a call whose setup raised: the pipeline is in READY
\* and nothing was collected.
C18_Witness ==
    /\ pc = "reset_flush"
    /\ exc = <<"TypeError", "set_property">>
    /\ pipeState = "READY"
    /\ flushing

\* -------------------------------------------------------------------- C19
\* C19: popping a tag message never ends collection, and its tag list is
\* merged last writer wins: after the step the data holds the message's
\* value under each of the message's keys and its earlier value under every
\* other key, and the call is still polling with nothing raised.
C19_TagsLastWriterWins ==
    [][(PopStep /\ Head(bus).msg.type = "TAG") =>
          LET taglist == Head(bus).msg.taglist
          IN /\ pc' = "loop"
             /\ exc' = exc
             /\ outcome' = outcome
             /\ DOMAIN data' = DOMAIN data \cup DOMAIN taglist
             /\ \A k \in DOMAIN taglist : data'[k] = taglist[k]
             /\ \A k \in DOMAIN data \ DOMAIN taglist : data'[k] = data[k]]_vars

\* Both tag lists were popped, the one with title Y last: the title is Y
\* and the artist of the first is kept.
C19_Witness ==
    /\ pc = "loop"
    /\ {"artist", "genre"} \subseteq DOMAIN data
    /\ data["title"] = "Y"
    /\ data["artist"] = "A"

\* -------------------------------------------------------------------- C20
\* C20: the order of _setup.  The pipeline goes to READY from NULL with the
\* bus still flushing; the uri is bound in READY with the bus still flushing;
\* the bus stops flushing in READY with the uri bound; PAUSED is requested
\* from READY with the bus delivering; PLAYING is requested from PAUSED and
\* exactly when the PAUSED request gave NO_PREROLL; and collection starts
\* with all of that done.
C20_SetupOrder ==
    [][/\ (pipeState # "READY" /\ pipeState' = "READY") =>
             (pipeState = "NULL" /\ flushing /\ flushing')
       /\ pc = "setup_uri" => (pipeState = "READY" /\ flushing)
       /\ (flushing /\ ~flushing') =>
             (pipeState = "READY" /\ uribinUri = uri)
       /\ (pipeState # "PAUSED" /\ pipeState' = "PAUSED") =>
             (pipeState = "READY" /\ ~flushing /\ uribinUri = uri)
       /\ (pipeState # "PLAYING" /\ pipeState' = "PLAYING") =>
             (pipeState = "PAUSED" /\ result = "NO_PREROLL")
       /\ (pc # "loop" /\ pc' = "loop") =>
             /\ uribinUri = uri
             /\ ~flushing
             /\ pipeState \in {"PAUSED", "PLAYING"}
             /\ pipeState = "PLAYING" <=> result = "NO_PREROLL"]_vars

\* Collection is about to start on a source that does not pre-roll.
C20_Witness ==
    /\ pc = "collect"
    /\ result = "NO_PREROLL"
    /\ pipeState = "PLAYING"
    /\ ~flushing

====
